---- MODULE Spec2Model ----
(***************************************************************************)
(* Model of datosEmbalses (src/main.py): the ETL run of main() with its    *)
(* change gate and its hybrid JSON writer, the per-reservoir statistics of *)
(* calcular_estadisticas_embalse, and the cleaning and grouping stage of   *)
(* procesar_datos.                                                         *)
(*                                                                         *)
(* Units: AGUA_ACTUAL and AGUA_TOTAL are integers counting thousandths,    *)
(* every emitted statistic is an integer counting hundredths; a mean is    *)
(* the exact quotient of a sum and a count, so the binary representation   *)
(* error of float64 is not modelled.  Names are sequences of code points.  *)
(***************************************************************************)
EXTENDS Integers, Sequences, FiniteSets, TLC

VARIABLES
    \* main(): control state and the files of the working directory
    pc, zipFile, mdbFile, hashFile, outFile,
    \* main() / procesar_datos(): locals
    current_hash, records, i, exitCode,
    \* history of the runs (what the run started from, what it did)
    run, hash0, out0, seen, steps, prev, error,
    \* calcular_estadisticas_embalse: the group passed in, the Series returned
    df_embalse, stats,
    \* procesar_datos, steps 2-4: the typed table, export_data["datos"]
    df, datos

vars == << pc, zipFile, mdbFile, hashFile, outFile, current_hash, records, i,
           exitCode, run, hash0, out0, seen, steps, prev, error, df_embalse,
           stats,
           df, datos >>

pipelineVars == << pc, zipFile, mdbFile, hashFile, outFile, current_hash,
                   records, i, exitCode, run, hash0, out0, seen, steps, prev,
                   error >>

statsVars == << df_embalse, stats >>

groupVars == << df, datos >>

(***************************************************************************)
(* Bounds of the model.                                                    *)
(***************************************************************************)
MaxLen == 3        \* rows of one reservoir series
MaxTabla == 3      \* rows of the table handed to the grouping stage
MaxRows == 2       \* rows of a downloaded artifact in the pipeline
MaxRuns == 3       \* invocations of main()
HashMod == 5       \* size of the digest space

(***************************************************************************)
(* Absence markers.                                                        *)
(***************************************************************************)
None == 0 - 1      \* Python None / JSON null in a numeric slot
NaN == 0 - 2       \* float NaN (mean of an empty selection)

Min(a, b) == IF a <= b THEN a ELSE b

(***************************************************************************)
(* Calendar.  A Timestamp holds its position on the time line (valor, in   *)
(* days) and shows its year, month and day.                                *)
(***************************************************************************)
IsLeap(y) == (y % 4 = 0 /\ y % 100 # 0) \/ y % 400 = 0

DaysInMonth(y, m) ==
    CASE m = 2 -> IF IsLeap(y) THEN 29 ELSE 28
      [] m \in {4, 6, 9, 11} -> 30
      [] OTHER -> 31

DaysBeforeMonth(y, m) ==
    << 0, 31, 59, 90, 120, 151, 181, 212, 243, 273, 304, 334 >>[m]
        + (IF m > 2 /\ IsLeap(y) THEN 1 ELSE 0)

\* the day number of year-month-day
DayNumber(y, m, d) ==
    LET y1 == y - 1
    IN  365 * y1 + (y1 \div 4) - (y1 \div 100) + (y1 \div 400)
            + DaysBeforeMonth(y, m) + d

\* pd.to_datetime / datetime(y, m, d)
Date(y, m, d) == [year |-> y, month |-> m, day |-> d, valor |-> DayNumber(y, m, d)]

\* pd.NaT, what to_datetime(errors='coerce') gives for an unreadable date
NaT == [year |-> 0, month |-> 0, day |-> 0, valor |-> 0]

\* the value two Timestamps are compared by
Ordinal(f) == f.valor

\* fecha + relativedelta(years=years, months=months); either may be negative.
RelAdd(f, years, months) ==
    LET y0 == f.year + years
        m0 == f.month + months
        y1 == IF m0 > 12 THEN y0 + 1 ELSE IF m0 < 1 THEN y0 - 1 ELSE y0
        m1 == IF m0 > 12 THEN m0 - 12 ELSE IF m0 < 1 THEN m0 + 12 ELSE m0
    IN  Date(y1, m1, Min(DaysInMonth(y1, m1), f.day))

\* the offset taken as 365 days a year and 30 days a month
RelSub_dias(f, years, months) ==
    [f EXCEPT !.valor = f.valor - 365 * years - 30 * months]

\* fecha - relativedelta(years=years, months=months)
RelSub(f, years, months) == RelAdd(f, 0 - years, 0 - months)

(***************************************************************************)
(* Numeric helpers: a mean is (sum, count); round(x, 2) on a float64.      *)
(***************************************************************************)
RECURSIVE SumActual(_)
SumActual(s) ==
    IF s = << >> THEN 0 ELSE Head(s).AGUA_ACTUAL + SumActual(Tail(s))

\* round-half-up: the nearest hundredth, a tie going up
round_half_up(sum, n) ==
    LET den == 10 * n
        q == sum \div den
        rem == sum % den
    IN  IF 2 * rem >= den THEN q + 1 ELSE q

\* round(sum / n, 2): the nearest hundredth, a tie going to the even one
round2(sum, n) ==
    LET den == 10 * n
        q == sum \div den
        rem == sum % den
    IN  IF 2 * rem > den THEN q + 1
        ELSE IF 2 * rem < den THEN q
        ELSE IF q % 2 = 0 THEN q ELSE q + 1

\* round(sel['AGUA_ACTUAL'].mean(), 2); the mean of no rows is NaN
MeanRound(sel) ==
    IF Len(sel) = 0 THEN NaN ELSE round2(SumActual(sel), Len(sel))

(***************************************************************************)
(* calcular_estadisticas_embalse                                           *)
(***************************************************************************)
\* The orders sort_values('FECHA', ascending=False) may return: the default
\* sort is not stable, so rows of equal date come in any order.
RECURSIVE Ordenes(_, _)
Ordenes(valor, K) ==
    IF K = {} THEN { << >> }
    ELSE UNION { { << k >> \o resto : resto \in Ordenes(valor, K \ {k}) } :
                 k \in { x \in K : \A j \in K : valor[x] >= valor[j] } }

SortValuesDesc(t) ==
    LET valor == [k \in 1..Len(t) |-> Ordinal(t[k].FECHA)]
    IN  { [j \in 1..Len(t) |-> t[o[j]]] : o \in Ordenes(valor, 1..Len(t)) }

\* FECHA >= limite, with the comparison flipped
Desde_flipped(fecha, limite) == Ordinal(fecha) <= limite

\* FECHA >= limite, with the limit itself left out
Desde_strict(fecha, limite) == Ordinal(fecha) > limite

\* df['FECHA'] >= limite for one row, limite being a position on the time line
Desde(fecha, limite) == Ordinal(fecha) >= limite

\* the prior-year selection without the month condition
InAnioAnt_anymonth(fecha, inicio, fin, mes_ref) ==
    Ordinal(fecha) > inicio /\ Ordinal(fecha) <= fin

\* the three conditions selecting df_anio_ant, for one row
InAnioAnt(fecha, inicio, fin, mes_ref) ==
    /\ Ordinal(fecha) > inicio
    /\ Ordinal(fecha) <= fin
    /\ fecha.month = mes_ref

\* pd.Series(): what the function returns for an empty group
EmptySeries ==
    [aa |-> None, at |-> None, f |-> << 0, 0, 0 >>, m1s |-> None, m2s |-> None,
     m1m |-> None, ma1 |-> None, h3a |-> None, h5a |-> None, h10a |-> None,
     h20a |-> None, ht |-> None]

\* The function after its sort: `ordenado` is the group sorted by FECHA,
\* descending.
calcular_estadisticas_embalse(ordenado) ==
    IF ordenado = << >> THEN EmptySeries
    ELSE
    LET fecha_referencia == ordenado[1].FECHA
        mes_ref == fecha_referencia.month
        hace_7 == Ordinal(fecha_referencia) - 7
        hace_14 == Ordinal(fecha_referencia) - 14
        hace_30 == Ordinal(fecha_referencia) - 30
        df_1s == SelectSeq(ordenado, LAMBDA r : Desde(r.FECHA, hace_7))
        df_2s == SelectSeq(ordenado, LAMBDA r : Desde(r.FECHA, hace_14))
        df_1m == SelectSeq(ordenado, LAMBDA r : Desde(r.FECHA, hace_30))
        df_hist_mes == SelectSeq(ordenado, LAMBDA r : r.FECHA.month = mes_ref)
        media_historica(anios) ==
            LET fecha_limite == Ordinal(RelSub(fecha_referencia, anios, 0))
            IN  MeanRound(SelectSeq(df_hist_mes, LAMBDA r : Desde(r.FECHA, fecha_limite)))
        fecha_anio_ant_inicio == Ordinal(RelSub(fecha_referencia, 1, 1))
        fecha_anio_ant_fin == Ordinal(RelAdd(RelSub(fecha_referencia, 1, 0), 0, 1))
        df_anio_ant ==
            SelectSeq(ordenado, LAMBDA r :
                InAnioAnt(r.FECHA, fecha_anio_ant_inicio, fecha_anio_ant_fin, mes_ref))
    IN  [aa |-> round2(ordenado[1].AGUA_ACTUAL, 1),
         at |-> round2(ordenado[1].AGUA_TOTAL, 1),
         f |-> << fecha_referencia.year, fecha_referencia.month, fecha_referencia.day >>,
         m1s |-> MeanRound(df_1s),
         m2s |-> MeanRound(df_2s),
         m1m |-> MeanRound(df_1m),
         ma1 |-> IF df_anio_ant # << >> THEN MeanRound(df_anio_ant) ELSE None,
         h3a |-> media_historica(3),
         h5a |-> media_historica(5),
         h10a |-> media_historica(10),
         h20a |-> media_historica(20),
         ht |-> MeanRound(df_hist_mes)]

(***************************************************************************)
(* Rows.  A row of the typed table (after to_numeric / to_datetime): a     *)
(* missing name is << >>, a missing number is NaN, a missing date is NaT.  *)
(***************************************************************************)
Row(an, en, fecha, total, actual) ==
    [AMBITO_NOMBRE |-> an, EMBALSE_NOMBRE |-> en, FECHA |-> fecha,
     AGUA_TOTAL |-> total, AGUA_ACTUAL |-> actual]

\* the readings drawn for one reservoir: 12.345 and 20.000
Volumenes == {12345, 20000}

\* dates around 2024-03-15 at the edges of the 7, 14 and 30 day windows
FechasRolling ==
    { Date(2024, 3, 15), Date(2024, 3, 8), Date(2024, 3, 7), Date(2024, 3, 5),
      Date(2024, 3, 1), Date(2024, 2, 29), Date(2024, 2, 14), Date(2024, 2, 13),
      Date(2024, 2, 4) }

\* dates at the edges of the prior-year window and of the 3-year window of
\* 2024-03-15 and of 2024-02-29, and one older than every K-year window
FechasHist ==
    { Date(2024, 3, 15), Date(2024, 2, 29), Date(2023, 4, 15), Date(2023, 3, 20),
      Date(2022, 3, 15), Date(2021, 3, 16), Date(2021, 3, 15), Date(2021, 3, 14),
      Date(2021, 2, 28), Date(2000, 3, 10) }

SerieRows(fechas) ==
    { Row(<< 1 >>, << 1 >>, f, 50000, v) : f \in fechas, v \in Volumenes }

(***************************************************************************)
(* One call of calcular_estadisticas_embalse on the series grown by a row. *)
(***************************************************************************)
Calcular(r) ==
    /\ Len(df_embalse) < MaxLen
    /\ df_embalse' = Append(df_embalse, r)
    /\ \E ordenado \in SortValuesDesc(df_embalse') :
           stats' = calcular_estadisticas_embalse(ordenado)
    /\ UNCHANGED << pipelineVars, groupVars >>

CalcularRolling == \E r \in SerieRows(FechasRolling) : Calcular(r)

CalcularHist == \E r \in SerieRows(FechasHist) : Calcular(r)

(***************************************************************************)
(* procesar_datos, steps 2 to 4: cleaning, grouping, the records of        *)
(* export_data["datos"].                                                   *)
(***************************************************************************)
\* str < str: code point by code point, a proper prefix first
StrLess(a, b) ==
    \E k \in 1..(Len(a) + 1) :
        /\ k <= Len(b)
        /\ \A j \in 1..(k - 1) : a[j] = b[j]
        /\ (k = Len(a) + 1 \/ a[k] < b[k])

Clave(r) == << r.AMBITO_NOMBRE, r.EMBALSE_NOMBRE >>

\* the order of the group keys (AMBITO_NOMBRE, EMBALSE_NOMBRE)
KeyLess(k1, k2) ==
    \/ StrLess(k1[1], k2[1])
    \/ (k1[1] = k2[1] /\ StrLess(k1[2], k2[2]))

\* df.dropna(subset=[AGUA_TOTAL, AGUA_ACTUAL, AMBITO_NOMBRE, EMBALSE_NOMBRE, FECHA])
dropna(t) ==
    SelectSeq(t, LAMBDA r :
        /\ r.AGUA_TOTAL # NaN
        /\ r.AGUA_ACTUAL # NaN
        /\ r.AMBITO_NOMBRE # << >>
        /\ r.EMBALSE_NOMBRE # << >>
        /\ r.FECHA # NaT)

RECURSIVE SortKeys(_)
SortKeys(S) ==
    IF S = {} THEN << >>
    ELSE LET m == CHOOSE k \in S : \A o \in S \ {k} : KeyLess(k, o)
         IN  << m >> \o SortKeys(S \ {m})

RECURSIVE FirstSeen(_, _)
FirstSeen(t, acc) ==
    IF t = << >> THEN acc
    ELSE FirstSeen(Tail(t),
            IF \E j \in 1..Len(acc) : acc[j] = Clave(Head(t))
            THEN acc ELSE Append(acc, Clave(Head(t))))

\* groupby(..., sort=False): the keys in the order the rows bring them
GroupKeys_unsorted(t) == FirstSeen(t, << >>)

\* groupby([AMBITO_NOMBRE, EMBALSE_NOMBRE]): the distinct keys, sorted
GroupKeys(t) == SortKeys({ Clave(t[k]) : k \in 1..Len(t) })

\* where(pd.notnull(...), None) on one value
NotNull(x) == IF x = NaN THEN None ELSE x

\* one record of to_dict(orient='records'), after reset_index and rename
Registro(clave, st) ==
    [an |-> clave[1], en |-> clave[2], aa |-> NotNull(st.aa), at |-> NotNull(st.at),
     f |-> st.f, m1s |-> NotNull(st.m1s), m2s |-> NotNull(st.m2s),
     m1m |-> NotNull(st.m1m), ma1 |-> NotNull(st.ma1), h3a |-> NotNull(st.h3a),
     h5a |-> NotNull(st.h5a), h10a |-> NotNull(st.h10a),
     h20a |-> NotNull(st.h20a), ht |-> NotNull(st.ht)]

\* the records apply() may give for one group (one per order of equal dates)
Registros(t, clave) ==
    { Registro(clave, calcular_estadisticas_embalse(o)) :
        o \in SortValuesDesc(SelectSeq(t, LAMBDA r : Clave(r) = clave)) }

RECURSIVE Aplicar(_, _)
Aplicar(t, claves) ==
    IF claves = << >> THEN { << >> }
    ELSE { << reg >> \o resto :
             reg \in Registros(t, Head(claves)), resto \in Aplicar(t, Tail(claves)) }

\* every list export_data["datos"] can be for the typed table t
Agrupar(t) == Aplicar(dropna(t), GroupKeys(dropna(t)))

\* the typed rows drawn for the grouping stage: two regions, two reservoir
\* names and a missing one, a reading or a missing one
TablaRows ==
    { Row(an, en, Date(2024, 3, 15), 50000, v) :
        an \in { << 1 >>, << 2 >> },
        en \in { << 1 >>, << 1, 2 >>, << >> },
        v \in { 20000, NaN } }

\* steps 2 to 4 on the table grown by one row
Procesar ==
    \E r \in TablaRows :
        /\ Len(df) < MaxTabla
        /\ df' = Append(df, r)
        /\ datos' \in Agrupar(df')
        /\ UNCHANGED << pipelineVars, statsVars >>

(***************************************************************************)
(* main(): the files, the change gate, the hybrid writer.                  *)
(* A file is [exists, content]; the content of the MDB is its table, the   *)
(* content of the output is the sequence of text pieces written, the       *)
(* content of the fingerprint file is a digest (None when empty).          *)
(***************************************************************************)
NoFile == [exists |-> FALSE, content |-> << >>]

NoHash == [exists |-> FALSE, content |-> None]

\* the rows a downloaded table is made of
PipelineRows ==
    { Row(<< 1 >>, << 1 >>, Date(2024, 3, 15), 50000, 20000),
      Row(<< 2 >>, << 1 >>, Date(2024, 3, 15), 50000, 12345) }

RECURSIVE SeqsUpTo(_, _)
SeqsUpTo(S, n) ==
    IF n = 0 THEN { << >> }
    ELSE LET shorter == SeqsUpTo(S, n - 1)
         IN  shorter \cup { Append(q, x) : q \in shorter, x \in S }

\* the tables BD-Embalses.mdb can hold
Artifacts == SeqsUpTo(PipelineRows, MaxRows) \ { << >> }

\* what one chunk of the file feeds the hasher
Bytes(r) == r.AMBITO_NOMBRE[1] + (r.AGUA_ACTUAL % 3)

RECURSIVE Hasher(_, _)
Hasher(h, content) ==
    IF content = << >> THEN h
    ELSE Hasher((3 * h + Bytes(Head(content)) + 1) % HashMod, Tail(content))

\* get_file_hash: the hasher updated chunk by chunk, then its digest
get_file_hash(content) == Hasher(0, content)

\* the gate's test with the comparison inverted
HashUnchanged_inverted(current, last) == current # last

\* current_hash == last_hash
HashUnchanged(current, last) == current = last

Pieza(texto, registro) == [texto |-> texto, registro |-> registro]

\* '{\n  "metadatos": ' + json.dump(METADATA) and ',\n  "datos": [\n'
Cabecera == << Pieza("{metadatos", << >>), Pieza("datos[", << >>) >>

\* the line of record k: the record, then ',\n' unless it is the last
Linea(recs, k) ==
    Pieza(IF k < Len(recs) THEN "registro," ELSE "registro", << recs[k] >>)

Cierre == Pieza("]}", << >>)

\* the text of a finished output file for the list recs
Completo(recs) ==
    Cabecera \o [k \in 1..Len(recs) |-> Linea(recs, k)] \o << Cierre >>

Prefijos(q) == { SubSeq(q, 1, k) : k \in 0..Len(q) }

\* sys.exit(codigo) that reports success whatever the code
Salir_siempre_cero(codigo) ==
    /\ pc' = "idle"
    /\ exitCode' = 0

\* sys.exit(codigo): the process ends with that status
Salir(codigo) ==
    /\ pc' = "idle"
    /\ exitCode' = codigo

\* a fatal error reported by an except block, then sys.exit(1)
Fatal(causa) ==
    /\ Salir(1)
    /\ error' = causa

\* an exception nothing catches: traceback, status 1
ExcepcionNoCapturada(causa) ==
    /\ pc' = "idle"
    /\ exitCode' = 1
    /\ error' = causa

\* how the run that has just ended went
Resultado ==
    IF run = 0 THEN "none"
    ELSE IF exitCode = 0
         THEN (IF steps[Len(steps)] = "limpiar" THEN "ok" ELSE "skip")
         ELSE error

\* the process is started
Iniciar ==
    /\ pc = "idle"
    /\ run < MaxRuns
    /\ pc' = "descargar"
    /\ run' = run + 1
    /\ exitCode' = None
    /\ hash0' = hashFile
    /\ out0' = outFile
    /\ prev' = [resultado |-> Resultado, visto |-> seen.exists, content |-> seen.content]
    /\ seen' = NoFile
    /\ steps' = << >>
    /\ error' = "none"
    /\ UNCHANGED << zipFile, mdbFile, hashFile, outFile, current_hash, records, i >>
    /\ UNCHANGED << statsVars, groupVars >>

\* descargar_y_extraer
descargar_y_extraer ==
    /\ pc = "descargar"
    /\ steps' = Append(steps, "descargar")
    /\ \/ \* requests.get or raise_for_status raises
          /\ Fatal("red")
          /\ UNCHANGED << zipFile, mdbFile, seen >>
       \/ \* the ZIP is written and holds no .mdb
          /\ zipFile' = TRUE
          /\ Fatal("sin_mdb")
          /\ UNCHANGED << mdbFile, seen >>
       \/ \* the .mdb is copied out and the ZIP removed
          \E a \in Artifacts :
              /\ mdbFile' = [exists |-> TRUE, content |-> a]
              /\ seen' = [exists |-> TRUE, content |-> a]
              /\ zipFile' = FALSE
              /\ pc' = "gate"
              /\ UNCHANGED << exitCode, error >>
    /\ UNCHANGED << hashFile, outFile, current_hash, records, i, run, hash0, out0, prev >>
    /\ UNCHANGED << statsVars, groupVars >>

\* the gate writing the fingerprint as soon as new data is detected
ControlDeEstado_temprano ==
    /\ pc = "gate"
    /\ steps' = Append(steps, "gate")
    /\ current_hash' = get_file_hash(mdbFile.content)
    /\ IF hashFile.exists /\ HashUnchanged(current_hash', hashFile.content)
       THEN /\ mdbFile' = NoFile
            /\ Salir(0)
            /\ UNCHANGED hashFile
       ELSE /\ pc' = "extraer"
            /\ hashFile' = [exists |-> TRUE, content |-> current_hash']
            /\ UNCHANGED << mdbFile, exitCode >>
    /\ UNCHANGED << zipFile, outFile, records, i, run, hash0, out0, seen, prev,
                    error >>
    /\ UNCHANGED << statsVars, groupVars >>

\* main, "Control de Estado (Hash)"
ControlDeEstado ==
    /\ pc = "gate"
    /\ steps' = Append(steps, "gate")
    /\ current_hash' = get_file_hash(mdbFile.content)
    /\ IF hashFile.exists /\ HashUnchanged(current_hash', hashFile.content)
       THEN /\ mdbFile' = NoFile
            /\ Salir(0)
       ELSE /\ pc' = "extraer"
            /\ UNCHANGED << mdbFile, exitCode >>
    /\ UNCHANGED << zipFile, hashFile, outFile, records, i, run, hash0, out0, seen, prev,
                    error >>
    /\ UNCHANGED << statsVars, groupVars >>

\* procesar_datos, steps 1 to 3 and the building of export_data
ExtraerYCalcular ==
    /\ pc = "extraer"
    /\ steps' = Append(steps, "extraer")
    /\ \/ \* mdb-export returns non-zero (or its output cannot be read)
          /\ Fatal("mdb_export")
          /\ UNCHANGED records
       \/ /\ records' \in Agrupar(mdbFile.content)
          /\ pc' = "abrir"
          /\ UNCHANGED << exitCode, error >>
    /\ UNCHANGED << zipFile, mdbFile, hashFile, outFile, current_hash, i, run, hash0,
                    out0, seen, prev >>
    /\ UNCHANGED << statsVars, groupVars >>

\* open(JSON_OUTPUT, 'w'): the file is created or truncated
AbrirSalida ==
    /\ pc = "abrir"
    /\ steps' = Append(steps, "abrir")
    /\ \/ \* open raises OSError
          /\ ExcepcionNoCapturada("escritura")
          /\ UNCHANGED outFile
       \/ /\ outFile' = [exists |-> TRUE, content |-> << >>]
          /\ pc' = "cabecera"
          /\ UNCHANGED << exitCode, error >>
    /\ UNCHANGED << zipFile, mdbFile, hashFile, current_hash, records, i, run, hash0,
                    out0, seen, prev >>
    /\ UNCHANGED << statsVars, groupVars >>

\* a write raises: of the text written so far some prefix is in the file
FallaEscritura ==
    /\ ExcepcionNoCapturada("escritura")
    /\ \E q \in Prefijos(outFile.content) :
           outFile' = [exists |-> TRUE, content |-> q]

\* the metadata block and the opening of the "datos" list
EscribirCabecera ==
    /\ pc = "cabecera"
    /\ steps' = Append(steps, "cabecera")
    /\ \/ /\ FallaEscritura
          /\ UNCHANGED i
       \/ /\ outFile' = [exists |-> TRUE, content |-> outFile.content \o Cabecera]
          /\ i' = 1
          /\ pc' = "registro"
          /\ UNCHANGED << exitCode, error >>
    /\ UNCHANGED << zipFile, mdbFile, hashFile, current_hash, records, run, hash0, out0,
                    seen, prev >>
    /\ UNCHANGED << statsVars, groupVars >>

\* one turn of the loop over records
EscribirRegistro ==
    /\ pc = "registro"
    /\ i <= Len(records)
    /\ steps' = Append(steps, "registro")
    /\ \/ /\ FallaEscritura
          /\ UNCHANGED i
       \/ /\ outFile' = [exists |-> TRUE,
                         content |-> Append(outFile.content, Linea(records, i))]
          /\ i' = i + 1
          /\ UNCHANGED << pc, exitCode, error >>
    /\ UNCHANGED << zipFile, mdbFile, hashFile, current_hash, records, run, hash0, out0,
                    seen, prev >>
    /\ UNCHANGED << statsVars, groupVars >>

\* the closing '  ]\n}\n' and the end of the with block
CerrarJSON ==
    /\ pc = "registro"
    /\ i > Len(records)
    /\ steps' = Append(steps, "cerrar")
    /\ \/ FallaEscritura
       \/ /\ outFile' = [exists |-> TRUE, content |-> Append(outFile.content, Cierre)]
          /\ pc' = "guardar"
          /\ UNCHANGED << exitCode, error >>
    /\ UNCHANGED << zipFile, mdbFile, hashFile, current_hash, records, i, run, hash0,
                    out0, seen, prev >>
    /\ UNCHANGED << statsVars, groupVars >>

\* main, "Guardar nuevo hash"
GuardarHash ==
    /\ pc = "guardar"
    /\ steps' = Append(steps, "guardar")
    /\ \/ \* open raises: the file is as it was
          /\ ExcepcionNoCapturada("hash")
          /\ UNCHANGED hashFile
       \/ \* the write raises after the truncation
          /\ ExcepcionNoCapturada("hash")
          /\ hashFile' = [exists |-> TRUE, content |-> None]
       \/ /\ hashFile' = [exists |-> TRUE, content |-> current_hash]
          /\ pc' = "limpiar"
          /\ UNCHANGED << exitCode, error >>
    /\ UNCHANGED << zipFile, mdbFile, outFile, current_hash, records, i, run, hash0,
                    out0, seen, prev >>
    /\ UNCHANGED << statsVars, groupVars >>

\* os.remove(MDB_FILE), the closing messages, the return of main
Finalizar ==
    /\ pc = "limpiar"
    /\ steps' = Append(steps, "limpiar")
    /\ mdbFile' = NoFile
    /\ pc' = "idle"
    /\ exitCode' = 0
    /\ UNCHANGED << zipFile, hashFile, outFile, current_hash, records, i, run, hash0,
                    out0, seen, prev, error >>
    /\ UNCHANGED << statsVars, groupVars >>

(***************************************************************************)
(* Specifications.                                                         *)
(***************************************************************************)
Init ==
    /\ pc = "idle"
    /\ zipFile = FALSE
    /\ mdbFile = NoFile
    /\ hashFile = NoHash
    /\ outFile = NoFile
    /\ current_hash = None
    /\ records = << >>
    /\ i = 1
    /\ exitCode = None
    /\ run = 0
    /\ hash0 = NoHash
    /\ out0 = NoFile
    /\ seen = NoFile
    /\ steps = << >>
    /\ prev = [resultado |-> "none", visto |-> FALSE, content |-> << >>]
    /\ error = "none"
    /\ df_embalse = << >>
    /\ stats = EmptySeries
    /\ df = << >>
    /\ datos = << >>

Next ==
    \/ Iniciar
    \/ descargar_y_extraer
    \/ ControlDeEstado
    \/ ExtraerYCalcular
    \/ AbrirSalida
    \/ EscribirCabecera
    \/ EscribirRegistro
    \/ CerrarJSON
    \/ GuardarHash
    \/ Finalizar

\* the runs of main()
Spec == Init /\ [][Next]_vars

\* calcular_estadisticas_embalse on series around the rolling windows
SpecRolling == Init /\ [][CalcularRolling]_vars

\* calcular_estadisticas_embalse on series around the year windows
SpecHist == Init /\ [][CalcularHist]_vars

\* the cleaning and grouping stage of procesar_datos
SpecGroup == Init /\ [][Procesar]_vars

(***************************************************************************)
(* Vocabulary of the properties: the calendar and the windows stated       *)
(* from the dates themselves (year, month, day), not from day numbers.     *)
(***************************************************************************)
DateLess(a, b) ==
    \/ a.year < b.year
    \/ (a.year = b.year /\ a.month < b.month)
    \/ (a.year = b.year /\ a.month = b.month /\ a.day < b.day)

DateLeq(a, b) == ~DateLess(b, a)

LastDay(y, m) ==
    IF m \in {1, 3, 5, 7, 8, 10, 12} THEN 31
    ELSE IF m # 2 THEN 30
    ELSE IF y % 400 = 0 \/ (y % 4 = 0 /\ y % 100 # 0) THEN 29 ELSE 28

YMD(y, m, d) == [year |-> y, month |-> m, day |-> d]

Clamp(y, m, d) == YMD(y, m, IF d > LastDay(y, m) THEN LastDay(y, m) ELSE d)

YearsBefore(a, n) == Clamp(a.year - n, a.month, a.day)

MonthBefore(a) ==
    IF a.month = 1 THEN Clamp(a.year - 1, 12, a.day)
    ELSE Clamp(a.year, a.month - 1, a.day)

MonthAfter(a) ==
    IF a.month = 12 THEN Clamp(a.year + 1, 1, a.day)
    ELSE Clamp(a.year, a.month + 1, a.day)

\* the date n days before a: back within the month, or on from the last
\* day of the month before
RECURSIVE DaysBefore(_, _)
DaysBefore(a, n) ==
    IF n < a.day THEN YMD(a.year, a.month, a.day - n)
    ELSE IF a.month > 1
         THEN DaysBefore(YMD(a.year, a.month - 1, LastDay(a.year, a.month - 1)),
                         n - a.day)
         ELSE DaysBefore(YMD(a.year - 1, 12, 31), n - a.day)

\* the reference date of a series: its latest date
RefDate(t) ==
    CHOOSE f \in { t[k].FECHA : k \in 1..Len(t) } :
        \A k \in 1..Len(t) : DateLeq(t[k].FECHA, f)

RECURSIVE SumAt(_, _)
SumAt(t, K) ==
    IF K = {} THEN 0
    ELSE LET k == CHOOSE x \in K : TRUE
         IN  t[k].AGUA_ACTUAL + SumAt(t, K \ {k})

\* the rows of t, by position, dated within n days up to the reference R
Within(t, R, n) ==
    LET desde == DaysBefore(R, n)
    IN  { k \in 1..Len(t) : DateLeq(desde, t[k].FECHA) }

\* the month-cohort of t
Cohort(t, R) == { k \in 1..Len(t) : t[k].FECHA.month = R.month }

\* the cohort rows dated R - n years or later
SinceYears(t, R, n) ==
    LET desde == YearsBefore(R, n)
    IN  { k \in Cohort(t, R) : DateLeq(desde, t[k].FECHA) }

\* the cohort rows dated later than R - n years
AfterYears(t, R, n) ==
    LET desde == YearsBefore(R, n)
    IN  { k \in Cohort(t, R) : DateLess(desde, t[k].FECHA) }

\* the cohort rows in (R - 1 year - 1 month, R - 1 year + 1 month]
PriorYear(t, R) ==
    LET desde == MonthBefore(YearsBefore(R, 1))
        hasta == MonthAfter(YearsBefore(R, 1))
    IN  { k \in Cohort(t, R) : DateLess(desde, t[k].FECHA) /\ DateLeq(t[k].FECHA, hasta) }

\* the mean over the rows K of t, to 2 decimals as the program rounds
MeanAt(t, K) == round2(SumAt(t, K), Cardinality(K))

\* the mean over the rows K of t is exactly 12.345
Is12345(t, K) == K # {} /\ SumAt(t, K) = 12345 * Cardinality(K)

SerieRow(fecha, v) == Row(<< 1 >>, << 1 >>, fecha, 50000, v)

(***************************************************************************)
(* Properties of calcular_estadisticas_embalse.                            *)
(***************************************************************************)

\* C5, as stated: the 3-year mean h3a is taken over the cohort rows dated
\* later than reference - 3 years: the row dated 3 years minus 1 day back
\* is in, the row dated exactly 3 calendar years back is out.
C5_Stated ==
    df_embalse # << >> =>
        LET R == RefDate(df_embalse)
        IN  stats.h3a = MeanAt(df_embalse, AfterYears(df_embalse, R, 3))

\* C5, amended: the bound is inclusive.  h3a is the mean over the cohort
\* rows dated reference - 3 years or later: the row dated 3 years minus
\* 1 day back and the row dated exactly 3 calendar years back are both in,
\* an older cohort row is out.
C5_Inclusive ==
    df_embalse # << >> =>
        LET R == RefDate(df_embalse)
        IN  stats.h3a = MeanAt(df_embalse, SinceYears(df_embalse, R, 3))

\* a series with a row 3 years minus a day and a row exactly 3 years before
\* its reference row: h3a is the mean of the three, 17.45
C5_Witness ==
    /\ Len(df_embalse) = 3
    /\ df_embalse[1] = SerieRow(Date(2024, 3, 15), 12345)
    /\ df_embalse[2] = SerieRow(Date(2021, 3, 16), 20000)
    /\ df_embalse[3] = SerieRow(Date(2021, 3, 15), 20000)
    /\ stats.h3a = 1745

\* C6: ma1 is the mean of AGUA_ACTUAL over exactly the rows dated in
\* (reference - 1 year - 1 month, reference - 1 year + 1 month] whose month
\* is the reference month, and null when there is no such row.
C6_PriorYearMean ==
    df_embalse # << >> =>
        LET K == PriorYear(df_embalse, RefDate(df_embalse))
        IN  stats.ma1 = (IF K = {} THEN None ELSE MeanAt(df_embalse, K))

\* a row of the prior year's March is averaged, a row dated on the upper
\* bound of the window but in April is not
C6_Witness ==
    /\ Len(df_embalse) = 3
    /\ df_embalse[1] = SerieRow(Date(2023, 4, 15), 12345)
    /\ df_embalse[2] = SerieRow(Date(2024, 3, 15), 12345)
    /\ df_embalse[3] = SerieRow(Date(2023, 3, 20), 20000)
    /\ stats.ma1 = 2000

\* C7: the reference date is the latest date of the series, and m1s, m2s,
\* m1m are the means of AGUA_ACTUAL over exactly the rows dated within 7,
\* 14, 30 days up to the reference date, both ends included.
C7_RollingMeans ==
    df_embalse # << >> =>
        LET R == RefDate(df_embalse)
        IN  /\ stats.f = << R.year, R.month, R.day >>
            /\ stats.m1s = MeanAt(df_embalse, Within(df_embalse, R, 7))
            /\ stats.m2s = MeanAt(df_embalse, Within(df_embalse, R, 14))
            /\ stats.m1m = MeanAt(df_embalse, Within(df_embalse, R, 30))

\* rows on D, D-10 and D-40: the 30-day mean is over the first two
C7_Witness ==
    /\ Len(df_embalse) = 3
    /\ df_embalse[1] = SerieRow(Date(2024, 2, 4), 20000)
    /\ df_embalse[2] = SerieRow(Date(2024, 3, 15), 20000)
    /\ df_embalse[3] = SerieRow(Date(2024, 3, 5), 12345)
    /\ stats.m1m = 1617
    /\ stats.m1s = 2000

\* the nine mean fields with the rows each is taken over
MeanFields ==
    LET R == RefDate(df_embalse)
    IN  { << stats.m1s, Within(df_embalse, R, 7) >>,
          << stats.m2s, Within(df_embalse, R, 14) >>,
          << stats.m1m, Within(df_embalse, R, 30) >>,
          << stats.ma1, PriorYear(df_embalse, R) >>,
          << stats.h3a, SinceYears(df_embalse, R, 3) >>,
          << stats.h5a, SinceYears(df_embalse, R, 5) >>,
          << stats.h10a, SinceYears(df_embalse, R, 10) >>,
          << stats.h20a, SinceYears(df_embalse, R, 20) >>,
          << stats.ht, Cohort(df_embalse, R) >> }

\* C9, as stated: a mean that is exactly 12.345 is emitted as 12.35, in
\* each of the nine mean fields.
C9_HalfUp ==
    df_embalse # << >> =>
        \A fw \in MeanFields : Is12345(df_embalse, fw[2]) => fw[1] = 1235

\* C9, amended: one rounding policy for the nine mean fields, to 2
\* decimals with a tie going to the even hundredth: a mean that is exactly
\* 12.345 is emitted as 12.34.
C9_HalfEven ==
    df_embalse # << >> =>
        \A fw \in MeanFields : Is12345(df_embalse, fw[2]) => fw[1] = 1234

\* every one of the nine fields is a mean that is exactly 12.345
C9_Witness ==
    /\ Len(df_embalse) = 2
    /\ \A fw \in MeanFields : Is12345(df_embalse, fw[2]) /\ fw[1] = 1234

\* the eight mean fields other than ma1
AlwaysFields ==
    { stats.m1s, stats.m2s, stats.m1m, stats.h3a, stats.h5a, stats.h10a,
      stats.h20a, stats.ht }

\* C10, as stated: the eight means other than ma1 are never null, and for a
\* series of one row each equals that row's AGUA_ACTUAL and ma1 is null.
C10_Stated ==
    df_embalse # << >> =>
        /\ \A x \in AlwaysFields : x # None /\ x # NaN
        /\ Len(df_embalse) = 1 =>
              /\ \A x \in AlwaysFields : 10 * x = df_embalse[1].AGUA_ACTUAL
              /\ stats.ma1 = None

\* C10, amended: the eight means other than ma1 are never null (the
\* reference row is in each of their windows); for a series of one row each
\* of them equals that row's AGUA_ACTUAL rounded to 2 decimals (the emitted
\* aa) and ma1 is null.
C10_NeverNull ==
    df_embalse # << >> =>
        /\ \A x \in AlwaysFields : x # None /\ x # NaN
        /\ Len(df_embalse) = 1 =>
              /\ \A x \in AlwaysFields :
                    x = stats.aa /\ x = round2(df_embalse[1].AGUA_ACTUAL, 1)
              /\ stats.ma1 = None

\* a series of one row reading 12.345: the eight means are 12.34, ma1 is null
C10_Witness ==
    /\ Len(df_embalse) = 1
    /\ df_embalse[1].AGUA_ACTUAL = 12345
    /\ AlwaysFields = { 1234 }
    /\ stats.ma1 = None

(***************************************************************************)
(* Properties of the grouping stage.                                       *)
(***************************************************************************)
\* the rows of the typed table, by position, with its five fields present
Limpias ==
    { k \in 1..Len(df) :
        /\ df[k].AMBITO_NOMBRE # << >>
        /\ df[k].EMBALSE_NOMBRE # << >>
        /\ df[k].FECHA # NaT
        /\ df[k].AGUA_TOTAL # NaN
        /\ df[k].AGUA_ACTUAL # NaN }

\* the place of a name of one or two code points below 10 in the order of names
NameRank(n) ==
    IF n = << >> THEN 0 ELSE 10 * n[1] + (IF Len(n) > 1 THEN n[2] ELSE 0)

KeyRank(an, en) == 100 * NameRank(an) + NameRank(en)

\* C8: "datos" holds exactly one record per distinct (region, reservoir) of
\* the cleaned rows, in ascending order of that key, whatever the order of
\* the input rows.
C8_OnePerKeyAscending ==
    LET claves == { << df[k].AMBITO_NOMBRE, df[k].EMBALSE_NOMBRE >> : k \in Limpias }
    IN  /\ Len(datos) = Cardinality(claves)
        /\ { << datos[j].an, datos[j].en >> : j \in 1..Len(datos) } = claves
        /\ \A j \in 1..(Len(datos) - 1) :
              KeyRank(datos[j].an, datos[j].en) < KeyRank(datos[j + 1].an, datos[j + 1].en)

\* three clean rows in descending key order, one of them a second row of a
\* key: two records, in ascending key order
C8_Witness ==
    /\ Len(df) = 3
    /\ Limpias = {1, 2, 3}
    /\ Clave(df[1]) = << << 2 >>, << 1 >> >>
    /\ Clave(df[2]) = << << 1 >>, << 1, 2 >> >>
    /\ Clave(df[3]) = << << 2 >>, << 1 >> >>
    /\ Len(datos) = 2
    /\ datos[1].an = << 1 >>
    /\ datos[2].an = << 2 >>

(***************************************************************************)
(* Properties of main().                                                   *)
(***************************************************************************)
Ended == pc = "idle" /\ run > 0

Did(paso) == \E k \in 1..Len(steps) : steps[k] = paso

FullOutput == [exists |-> TRUE, content |-> Completo(records)]

NewHash == [exists |-> TRUE, content |-> current_hash]

\* the steps of a run that goes through, for n records
Pasos(n) ==
    << "descargar", "gate", "extraer", "abrir", "cabecera" >>
        \o [k \in 1..n |-> "registro"] \o << "cerrar", "guardar", "limpiar" >>

\* C1: the fingerprint file is written only after procesar_datos has
\* written the whole output, and then with the new digest; a run that fails
\* at the download, at mdb-export or in the output write leaves the
\* fingerprint file as the run found it, and the next run on the artifact
\* such a run was processing does not take the "unchanged" exit.
C1_FingerprintAfterOutput ==
    /\ hashFile # hash0 =>
          /\ Did("guardar")
          /\ outFile = FullOutput
          /\ hashFile.content \in { current_hash, None }
    /\ (Ended /\ exitCode = 0 /\ Did("guardar")) => hashFile = NewHash
    /\ (Ended /\ error \in { "red", "sin_mdb", "mdb_export", "escritura" }) =>
          hashFile = hash0
    /\ (/\ prev.resultado \in { "mdb_export", "escritura" }
        /\ seen.exists
        /\ seen.content = prev.content
        /\ Did("gate")) => Resultado # "skip" /\ (Ended \/ Did("extraer") \/ pc = "extraer")

\* a run failed in the output write with an older fingerprint on disk, and
\* the next run, on the same artifact, is past the gate and processing
C1_Witness ==
    /\ prev.resultado = "escritura"
    /\ seen.exists
    /\ seen.content = prev.content
    /\ hashFile.exists
    /\ hashFile = hash0
    /\ pc = "extraer"

\* C2: when a run has ended, either the output file holds the whole new
\* dataset and the fingerprint is the new digest, or the output file and
\* the fingerprint file are both as the run found them.
C2_AllOrNothing ==
    Ended =>
        \/ (outFile = FullOutput /\ hashFile = NewHash)
        \/ (outFile = out0 /\ hashFile = hash0)

\* C3: after a run that ended with status 0 on an artifact, a run that
\* downloads the same artifact leaves the output file and the fingerprint
\* file as they were, never enters the statistics and writing stage, and
\* ends with status 0 at the gate.
C3_Idempotent ==
    (/\ prev.resultado \in { "ok", "skip" }
     /\ seen.exists
     /\ seen.content = prev.content) =>
        /\ outFile = out0
        /\ hashFile = hash0
        /\ pc \in { "gate", "idle" }
        /\ ~Did("extraer")
        /\ Ended => (exitCode = 0 /\ steps = << "descargar", "gate" >>)

\* a full run, then a run on the same artifact that has ended with status 0
C3_Witness ==
    /\ prev.resultado = "ok"
    /\ seen.exists
    /\ seen.content = prev.content
    /\ Ended
    /\ exitCode = 0
    /\ outFile = [exists |-> TRUE, content |-> Completo(records)]

\* C4: a run ends with status 0 exactly when it went through the whole
\* pipeline (output written, fingerprint stored) or left at the gate; an
\* unreachable source, an archive without .mdb, a failing mdb-export and a
\* failing output write each end the run with status 1 at that step, every
\* step before it done once and none after it.
C4_ExitStatus ==
    Ended =>
        /\ exitCode \in { 0, 1 }
        /\ exitCode = 0 <=>
              \/ (/\ steps = Pasos(Len(records))
                  /\ outFile = FullOutput
                  /\ hashFile = NewHash)
              \/ steps = << "descargar", "gate" >>
        /\ error \in { "red", "sin_mdb" } =>
              (exitCode = 1 /\ steps = << "descargar" >>)
        /\ error = "mdb_export" =>
              (exitCode = 1 /\ steps = << "descargar", "gate", "extraer" >>)
        /\ error = "escritura" =>
              /\ exitCode = 1
              /\ steps[Len(steps)] \in { "abrir", "cabecera", "registro", "cerrar" }
              /\ steps = SubSeq(Pasos(Len(records)), 1, Len(steps))

\* a run that ended with status 1 on a write failing inside the record loop
C4_Witness ==
    /\ Ended
    /\ error = "escritura"
    /\ exitCode = 1
    /\ steps[Len(steps)] = "registro"
    /\ Len(steps) = 7

====
